---- MODULE Spec2Model ----
(***************************************************************************)
(* A model of liteiclink's SerWB link: the KUSSerdes line datapath         *)
(* (serwb/kusphy.py), the SERWBCore word pipeline (serwb/core.py) and the  *)
(* example design that wires a requester and a remote endpoint together    *)
(* (examples/serwb/nexys.py).                                              *)
(*                                                                         *)
(* Words wider than 31 bits are kept as tuples: a 32-bit word is a tuple   *)
(* of 4 bytes (index 1 = bits 0..7), a 40-bit line word is a tuple of 4    *)
(* ten-bit code groups (index 1 = bits 0..9).                              *)
(***************************************************************************)
EXTENDS Integers, Sequences, FiniteSets, TLC

(***************************************************************************)
(* Bit-vector helpers (migen Signal slices, Cat, ~)                        *)
(***************************************************************************)
Bit(x, i) == (x \div (2 ^ i)) % 2

\* x[lo:lo+n]
Slice(x, lo, n) == (x \div (2 ^ lo)) % (2 ^ n)

\* ~x on an n-bit signal
Inv(x, n) == (2 ^ n) - 1 - x

RECURSIVE Reverse(_, _)
\* output[i] = input[n-1-i]
Reverse(x, n) == IF n = 0 THEN 0 ELSE (x % 2) * (2 ^ (n - 1)) + Reverse(x \div 2, n - 1)

RECURSIVE Ones(_, _)
Ones(x, n) == IF n = 0 THEN 0 ELSE (x % 2) + Ones(x \div 2, n - 1)

\* code_8b10b.disparity(word, nbits): ones minus zeros
disparity(word, nbits) == 2 * Ones(word, nbits) - nbits

RECURSIVE XorN(_, _, _)
XorN(a, b, n) == IF n = 0 THEN 0 ELSE ((a + b) % 2) + 2 * XorN(a \div 2, b \div 2, n - 1)

Lanes == 1..4

(***************************************************************************)
(* 8b/10b line code (litex.soc.cores.code_8b10b, as instantiated by        *)
(* KUSSerdes: Encoder(4, True) and four Decoder(True))                     *)
(***************************************************************************)
\* 0b011000, 0b100010, ... : the RD+ column of the 5b/6b table, abcdei
table_5b6b ==
  << 24, 34, 18, 49, 10, 41, 25,  7,
      6, 37, 21, 52, 13, 44, 28, 40,
     36, 35, 19, 50, 11, 42, 26,  5,
     12, 38, 22,  9, 14, 17, 33, 20 >>

table_5b6b_unbalanced == [i \in 1..32 |-> disparity(table_5b6b[i], 6) # 0]

table_5b6b_flip == [i \in 1..32 |-> IF i = 7 + 1 THEN TRUE ELSE table_5b6b_unbalanced[i]]

\* 0b0100, 0b1001, 0b0101, 0b0011, 0b0010, 0b1010, 0b0110, 0b0001 (primary D.x.7)
table_3b4b == << 4, 9, 5, 3, 2, 10, 6, 1 >>

table_3b4b_unbalanced == [i \in 1..8 |-> disparity(table_3b4b[i], 4) # 0]

table_3b4b_flip == [i \in 1..8 |-> IF i = 3 + 1 THEN TRUE ELSE table_3b4b_unbalanced[i]]

\* reverse_table_flip: code group -> value, both polarities of a flipped entry,
\* and 0 for a code group outside the alphabet
reverse_table_flip(inputs, flips, nbits) ==
  [w \in 0..(2 ^ nbits - 1) |->
     IF \E i \in DOMAIN inputs : inputs[i] = w \/ (flips[i] /\ Inv(inputs[i], nbits) = w)
     THEN (CHOOSE i \in DOMAIN inputs :
             inputs[i] = w \/ (flips[i] /\ Inv(inputs[i], nbits) = w)) - 1
     ELSE 0]

\* reverse_table: code group -> value, 0 outside the alphabet
reverse_table(inputs, nbits) ==
  [w \in 0..(2 ^ nbits - 1) |->
     IF \E i \in DOMAIN inputs : inputs[i] = w
     THEN (CHOOSE i \in DOMAIN inputs : inputs[i] = w) - 1
     ELSE 0]

table_6b5b ==
  [w \in 0..63 |-> IF w \in {15, 48} THEN 28
                   ELSE reverse_table_flip(table_5b6b, table_5b6b_flip, 6)[w]]

table_4b3b ==
  [w \in 0..15 |-> IF w \in {7, 8} THEN 7
                   ELSE reverse_table_flip(table_3b4b, table_3b4b_flip, 4)[w]]

table_4b3b_kn ==
  [w \in 0..15 |-> IF w = 1 THEN 0 ELSE IF w = 8 THEN 7
                   ELSE reverse_table(table_3b4b, 4)[w]]

table_4b3b_kp ==
  [w \in 0..15 |-> IF w = 14 THEN 0 ELSE IF w = 7 THEN 7
                   ELSE reverse_table([i \in 1..8 |-> Inv(table_3b4b[i], 4)], 4)[w]]

\* SingleEncoder(lsb_first=True): one code group from (k, d) and the running
\* disparity disp_in (0 = RD-, 1 = RD+)
SingleEncoderLogic(k, d, disp_in) ==
  LET code5b == Slice(d, 0, 5)
      code3b == Slice(d, 5, 3)
      k28    == (k = 1) /\ (code5b = 28)
      code6b == IF k28 THEN 48 ELSE table_5b6b[code5b + 1]
      code6b_unbalanced == IF k28 THEN TRUE ELSE table_5b6b_unbalanced[code5b + 1]
      code6b_flip == IF k28 THEN TRUE ELSE table_5b6b_flip[code5b + 1]
      code4b == table_3b4b[code3b + 1]
      code4b_unbalanced == table_3b4b_unbalanced[code3b + 1]
      code4b_flip == IF k = 1 THEN TRUE ELSE table_3b4b_flip[code3b + 1]
      alt7_rd0 == (code3b = 7) /\ ((code5b \in {17, 18, 20}) \/ (k = 1))
      alt7_rd1 == (code3b = 7) /\ ((code5b \in {11, 13, 14}) \/ (k = 1))
      disp_inter == (disp_in + (IF code6b_unbalanced THEN 1 ELSE 0)) % 2
      output_6b == IF disp_in = 0 /\ code6b_flip THEN Inv(code6b, 6) ELSE code6b
      output_4b == IF disp_inter = 0 /\ alt7_rd0 THEN 7
                   ELSE IF disp_inter = 1 /\ alt7_rd1 THEN 8
                   ELSE IF disp_inter = 0 /\ code4b_flip THEN Inv(code4b, 4)
                   ELSE code4b
      disp_out == IF (disp_inter = 0 /\ alt7_rd0) \/ (disp_inter = 1 /\ alt7_rd1)
                  THEN 1 - disp_inter
                  ELSE (disp_inter + (IF code4b_unbalanced THEN 1 ELSE 0)) % 2
      output_msb_first == output_4b + 16 * output_6b
  IN [output |-> Reverse(output_msb_first, 10), disp_out |-> disp_out]

\* SingleEncoder as a function of its three inputs
SingleEncoderTable ==
  [k \in 0..1, d \in 0..255, disp_in \in 0..1 |-> SingleEncoderLogic(k, d, disp_in)]

SingleEncoder(k, d, disp_in) == SingleEncoderTable[k, d, disp_in]

RECURSIVE DispIn(_, _, _, _)
\* the disparity chain of Encoder(nwords): encoders[i].disp_in is encoders[i-1].disp_out,
\* and encoders[0].disp_in is the last encoder's registered disp_out
DispIn(k, d, disp_in, i) ==
  IF i = 1 THEN disp_in
  ELSE SingleEncoder(k[i - 1], d[i - 1], DispIn(k, d, disp_in, i - 1)).disp_out

\* Encoder(4, True): four code groups and the disparity left for the next word
Encoder(k, d, disp_in) ==
  [output   |-> [i \in 1..Len(k) |-> SingleEncoder(k[i], d[i], DispIn(k, d, disp_in, i)).output],
   disp_out |-> DispIn(k, d, disp_in, Len(k) + 1)]

\* Decoder(True): (k, d) of one code group; no validity or disparity check
DecoderLogic(input) ==
  LET input_msb_first == Reverse(input, 10)
      code6b == Slice(input_msb_first, 4, 6)
      code4b == Slice(input_msb_first, 0, 4)
      k == IF code6b = 15 \/ code6b = 48 THEN 1
           ELSE IF (code4b = 7 \/ code4b = 8) /\ code6b \notin {35, 19, 11, 52, 44, 28}
           THEN 1 ELSE 0
      code3b == IF code6b = 15 THEN table_4b3b_kn[code4b]
                ELSE IF code6b = 48 THEN table_4b3b_kp[code4b]
                ELSE table_4b3b[code4b]
      code5b == table_6b5b[code6b]
  IN [k |-> k, d |-> code5b + 32 * code3b]

\* Decoder as a function of its 10-bit input
DecoderTable == [input \in 0..1023 |-> DecoderLogic(input)]

Decoder(input) == DecoderTable[input]

(***************************************************************************)
(* KUSSerdes (serwb/kusphy.py): the datapath in the sys0p2x domain.        *)
(* tx_idle, tx_comma and rx_bitslip_value stand for the values behind      *)
(* their MultiReg synchronizers.  rx_k, rx_d and rx_comma are taken at the *)
(* inputs of the decoders' output registers, so that they speak about the  *)
(* word BitSlip presents in the same cycle; decoders_q keeps the registers *)
(* themselves, for what the outputs show in one and the same cycle.        *)
(***************************************************************************)
VARIABLES
  rot,               \* bit offset at which rx_gearbox cuts the serial stream into 40-bit words
  probe,             \* the payload word this behaviour's sender uses besides the fixed ones
  disp,              \* encoder running disparity (encoders[0].disp_in)
  tx_gearbox_i,      \* tx_gearbox.i, the registered 40-bit line word
  line_w,            \* the line word serialized before tx_gearbox_i, still being received
  rx_bitslip_r,      \* BitSlip's 80-bit register r, as <<r[0:40], r[40:80]>>
  rx_bitslip_value,  \* rx_bitslip.value
  decoders_q,        \* the (k, d) output registers of the four decoders
  locked,            \* the bitslip value has been frozen on an observed rx_comma
  tx_hist,           \* the serdes inputs of the last HistLen sys0p2x cycles, newest first
  trainer            \* the link trainer of the endpoint that owns this receive path

serdesVars == << rot, probe, disp, tx_gearbox_i, line_w, rx_bitslip_r,
                 rx_bitslip_value, decoders_q, locked, tx_hist, trainer >>

\* the state of the two SERWBCores of the example design, described further below
VARIABLES
  with_scrambling,   \* SERWBCore's with_scrambling argument, the same on both cores
  ready,             \* phy.init.ready of each endpoint
  clk,               \* 1 when a sys edge has passed since the last edge of the PHY word clock
  wb,                \* the requester's bus: the transaction its master is holding, if any
  rd_wait,           \* the requester's Etherbone has a read in flight
  eb_src,            \* etherbone.source of each core: the frame it offers to the packetizer
  pk,                \* packetizer: words of the current frame still to emit
  tx_cdc,            \* tx_cdc of each core
  scr,               \* scrambler state of each core
  dsc,               \* descrambler state of each core
  rx_cdc,            \* rx_cdc of each core
  dpk,               \* depacketizer: words of the frame being received
  dpk_src,           \* depacketizer.source: the checked frame it offers to Etherbone
  mem,               \* the test SRAM on the remote bus
  log                \* observations: bus transactions at both ends, frames at the framers

coreVars == << with_scrambling, ready, clk, wb, rd_wait, eb_src, pk, tx_cdc, scr, dsc,
               rx_cdc, dpk, dpk_src, mem, log >>

\* the clock and reset generator of the example design, described further below
VARIABLES
  pll_locked,        \* LOCKED of the MMCM
  reset,             \* ~cpu_reset: the reset button is pressed
  sys_rst,           \* the two flip-flops of cd_sys's reset synchronizer, the last one is cd_sys.rst
  clk200_rst,        \* the same for cd_clk200
  reset_counter,     \* reset_counter
  ic_reset           \* ic_reset, the RST input of IDELAYCTRL

crgVars == << pll_locked, reset, sys_rst, clk200_rst, reset_counter, ic_reset >>

vars == << serdesVars, coreVars, crgVars >>

LineWidth == 40

\* rx_bitslip_value = Signal(6)
BitslipWidth == 6

ZeroWord == << 0, 0, 0, 0 >>

\* _CRG long after power-up: the MMCM is locked, no domain is in reset and the delay
\* controller has been released
CrgRunning ==
  /\ pll_locked = TRUE
  /\ reset = FALSE
  /\ sys_rst = << 0, 0 >>
  /\ clk200_rst = << 0, 0 >>
  /\ reset_counter = 0
  /\ ic_reset = 0

\* the bits of a 10-bit code group
CodeBits == [c \in 0..1023 |-> [b \in 0..9 |-> Bit(c, b)]]

\* bit i of Cat(lo, hi), two 40-bit words kept as 4 code groups each
CatBit(lo, hi, i) ==
  IF i < LineWidth THEN CodeBits[lo[(i \div 10) + 1]][i % 10]
  ELSE CodeBits[hi[((i - LineWidth) \div 10) + 1]][i % 10]

\* Cat(lo, hi)[off:off+10] as a number
CatBits(lo, hi, off) ==
  LET c == [b \in 0..9 |-> CatBit(lo, hi, off + b)]
  IN c[0] + 2 * c[1] + 4 * c[2] + 8 * c[3] + 16 * c[4] + 32 * c[5]
     + 64 * c[6] + 128 * c[7] + 256 * c[8] + 512 * c[9]

\* Cat(lo, hi)[off:off+40] as 4 code groups
Window(lo, hi, off) ==
  IF off = 0 THEN lo ELSE [j \in Lanes |-> CatBits(lo, hi, off + 10 * (j - 1))]

\* an encoder input whose lanes 1 to 3 follow tx_k and tx_d while tx_comma is high
EncoderInKeepLanes(comma, k, d) ==
  IF comma THEN [k |-> [j \in Lanes |-> IF j = 1 THEN 1 ELSE k[j]],
                 d |-> [j \in Lanes |-> IF j = 1 THEN 188 ELSE d[j]]]
  ELSE [k |-> k, d |-> d]

\* tx datapath: what the encoder is given
EncoderIn(comma, k, d) ==
  IF comma THEN [k |-> << 1, 0, 0, 0 >>, d |-> << 188, 0, 0, 0 >>]
  ELSE [k |-> k, d |-> d]

\* the value loaded into tx_gearbox.i on a sys0p2x edge
TxGearboxIn(idle, comma, k, d, dsp) ==
  IF idle THEN ZeroWord
  ELSE Encoder(EncoderIn(comma, k, d).k, EncoderIn(comma, k, d).d, dsp).output

\* tx_gearbox -> OSERDESE3 -> line -> ISERDESE3 -> rx_gearbox: the serial stream
\* re-cut into 40-bit words at an offset the receiver does not know
RxGearboxOut(older, newer, r) == Window(older, newer, r)

\* a BitSlip whose window starts one bit late
BitSlipOutLate(r, value) ==
  IF value + 1 < LineWidth THEN Window(r[1], r[2], value + 1) ELSE ZeroWord

\* BitSlip(40): o = r[value:value+40]; no case for value >= 40, o keeps its reset value
BitSlipOut(r, value) ==
  IF value < LineWidth THEN Window(r[1], r[2], value) ELSE ZeroWord

\* r.eq(Cat(r[dw:], i))
BitSlipShift(r, i) == << r[2], i >>

rx_bitslip_o == BitSlipOut(rx_bitslip_r, rx_bitslip_value)

decoders == [j \in Lanes |-> Decoder(rx_bitslip_o[j])]

rx_k == [j \in Lanes |-> decoders[j].k]

\* rx_d with the decoders concatenated in the opposite order
rx_d_reversed == [j \in Lanes |-> decoders[5 - j].d]

rx_d == [j \in Lanes |-> decoders[j].d]

rx_idle == rx_bitslip_o = ZeroWord

\* the decoders' output registers out of reset
DecodersReset == [j \in Lanes |-> [k |-> 0, d |-> 0]]

\* rx_comma as the decoders' registered outputs show it: the decode of the word
\* BitSlip presented one sys0p2x cycle before
rx_comma_q ==
  /\ decoders_q[1].d = 188 /\ decoders_q[1].k = 1
  /\ decoders_q[2].d = 0 /\ decoders_q[2].k = 0
  /\ decoders_q[3].d = 0 /\ decoders_q[3].k = 0
  /\ decoders_q[4].d = 0 /\ decoders_q[4].k = 0

\* rx_comma that does not look at decoders[0].k
rx_comma_any_k ==
  /\ decoders[1].d = 188
  /\ decoders[2].d = 0 /\ decoders[2].k = 0
  /\ decoders[3].d = 0 /\ decoders[3].k = 0
  /\ decoders[4].d = 0 /\ decoders[4].k = 0

\* rx_comma that expects a data byte on lane 0
rx_comma_data ==
  /\ decoders[1].d = 188 /\ decoders[1].k = 0
  /\ decoders[2].d = 0 /\ decoders[2].k = 0
  /\ decoders[3].d = 0 /\ decoders[3].k = 0
  /\ decoders[4].d = 0 /\ decoders[4].k = 0

rx_comma ==
  /\ decoders[1].d = 188 /\ decoders[1].k = 1
  /\ decoders[2].d = 0 /\ decoders[2].k = 0
  /\ decoders[3].d = 0 /\ decoders[3].k = 0
  /\ decoders[4].d = 0 /\ decoders[4].k = 0

(***************************************************************************)
(* The sender's and the trainer's side of the serdes                       *)
(***************************************************************************)
HistLen == 4

IdleIn == [idle |-> TRUE, comma |-> FALSE, k |-> ZeroWord, d |-> ZeroWord]

CommaIn(w) == [idle |-> FALSE, comma |-> TRUE, k |-> w.k, d |-> w.d]

DataIn(w) == [idle |-> FALSE, comma |-> FALSE, k |-> w.k, d |-> w.d]

\* 0xDEADBEEF as data, and a word mixing control and data lanes
WordA == [k |-> << 0, 0, 0, 0 >>, d |-> << 239, 190, 173, 222 >>]

WordB == [k |-> << 1, 0, 1, 0 >>, d |-> << 253, 0, 28, 74 >>]

\* the valid 8b/10b symbols: 256 data bytes and the 12 control bytes
KCodes == { 28, 60, 92, 124, 156, 188, 220, 252, 247, 251, 253, 254 }

Symbols == { << 0, b >> : b \in 0..255 } \cup { << 1, b >> : b \in KCodes }

\* a word carrying symbol s on lane p and distinct data bytes on the other lanes
ProbeWord(p, s) ==
  [k |-> [j \in Lanes |-> IF j = p THEN s[1] ELSE 0],
   d |-> [j \in Lanes |-> IF j = p THEN s[2] ELSE 16 * j + j]]

AllProbes == { ProbeWord(p, s) : p \in Lanes, s \in Symbols }

Rotations == 0..(LineWidth - 1)

\* what the sender may present in a cycle: before lock it idles and then trains
\* (COMMA, whatever tx_k and tx_d are); after lock anything
TxInputs ==
  IF locked THEN { IdleIn, CommaIn(WordA), DataIn(probe), DataIn(WordA) }
  ELSE { CommaIn(probe) } \cup (IF tx_hist[1].idle THEN { IdleIn } ELSE { })

\* a link trainer out of reset, with its role and what its peer does
TrainerReset(role, peer) ==
  [role |-> role, peer |-> peer, state |-> "RESET", timer |-> 0, tick |-> FALSE]

AllComma(h) == \A i \in 1..Len(h) : h[i].comma /\ ~h[i].idle

\* the bitslip value that undoes rot
Aligned == (rot + rx_bitslip_value) % LineWidth = 0

\* the input whose line word BitSlip presents when Aligned
Presented == IF rot = 0 THEN tx_hist[4] ELSE tx_hist[3]

SerdesInit(rots, probes) ==
  /\ rot \in rots
  /\ probe \in probes
  /\ disp = 0
  /\ tx_gearbox_i = ZeroWord
  /\ line_w = ZeroWord
  /\ rx_bitslip_r = << ZeroWord, ZeroWord >>
  /\ decoders_q = DecodersReset
  /\ CrgRunning
  /\ rx_bitslip_value = 0
  /\ locked = FALSE
  /\ tx_hist = [i \in 1..HistLen |-> IdleIn]
  /\ trainer = TrainerReset("req", "training")

\* one sys0p2x clock edge of the whole datapath, the sender presenting one of inputs
Cycle(inputs) ==
  \E in \in inputs :
    LET e == Encoder(EncoderIn(in.comma, in.k, in.d).k, EncoderIn(in.comma, in.k, in.d).d, disp)
    IN /\ tx_gearbox_i' = TxGearboxIn(in.idle, in.comma, in.k, in.d, disp)
       /\ disp' = e.disp_out
       /\ line_w' = tx_gearbox_i
       /\ rx_bitslip_r' = BitSlipShift(rx_bitslip_r, RxGearboxOut(line_w, tx_gearbox_i, rot))
       /\ decoders_q' = decoders
       /\ tx_hist' = << in >> \o SubSeq(tx_hist, 1, HistLen - 1)
       /\ UNCHANGED << rot, probe, rx_bitslip_value, locked, coreVars, crgVars >>

Sys0p2xCycle == Cycle(TxInputs) /\ UNCHANGED trainer

\* the same clock edge on a trained link whose sender presents only its payload
\* word and COMMA
CodecCycle == Cycle({ DataIn(probe), CommaIn(WordA) }) /\ UNCHANGED trainer

\* the trainer moves the sampling window by one bit position
BitslipStep ==
  /\ ~locked
  /\ ~rx_comma
  /\ rx_bitslip_value' = (rx_bitslip_value + 1) % LineWidth
  /\ UNCHANGED << rot, probe, disp, tx_gearbox_i, line_w, rx_bitslip_r, decoders_q, locked, tx_hist,
                  trainer, coreVars, crgVars >>

\* the trainer keeps the value at which it sees rx_comma on a stream of COMMA words
Lock ==
  /\ ~locked
  /\ rx_comma
  /\ AllComma(tx_hist)
  /\ locked' = TRUE
  /\ UNCHANGED << rot, probe, disp, tx_gearbox_i, line_w, rx_bitslip_r, decoders_q,
                  rx_bitslip_value, tx_hist, trainer, coreVars, crgVars >>

(***************************************************************************)
(* SERWBCore (serwb/core.py) in the example design (examples/serwb/nexys.py)*)
(*                                                                         *)
(* Two cores: "req" is serwb_master_core (Etherbone mode "slave", the SoC  *)
(* bus is its master) and "rem" is serwb_slave_core (Etherbone mode        *)
(* "master", it drives the test SRAM).  Both sit in the one "sys" domain   *)
(* of the SoC; their scramblers, descramblers and the far ends of tx_cdc   *)
(* and rx_cdc sit in the PHY's word domain.  Scrambler, Descrambler,       *)
(* Packetizer, Depacketizer and Etherbone are imported by core.py from     *)
(* modules outside src/ and follow the specification's sections 4.4-4.6.   *)
(***************************************************************************)
Endpoints == { "req", "rem" }

\* each endpoint's serdes wired back to itself
Loopback(e) == e

Peer(e) == IF e = "req" THEN "rem" ELSE "req"

\* stream.AsyncFIFO([("data", 32)], 16)
FifoDepth == 16

\* the reader of an AsyncFIFO sees the write pointer through a two-stage synchronizer
SyncStages == 2

\* the number of bus transactions the requester's master issues
MaxOps == 2


ZeroData == << 0, 0, 0, 0 >>

\* bitwise xor of two 4-bit values, as a table
XorNibble == [a \in 0..15 |-> [b \in 0..15 |-> XorN(a, b, 4)]]

\* bitwise xor of two bytes
XorByte(a, b) == XorNibble[a % 16][b % 16] + 16 * XorNibble[a \div 16][b \div 16]

\* bitwise xor of two 32-bit words
XorWord(a, b) == [j \in Lanes |-> XorByte(a[j], b[j])]

(***************************************************************************)
(* Scrambler / Descrambler (specification 4.4)                             *)
(***************************************************************************)
\* one LFSR step on a byte: times x modulo x^8 + x^4 + x^3 + x^2 + 1
LfsrByte == [b \in 0..255 |-> XorByte((2 * b) % 256, IF b >= 128 THEN 29 ELSE 0)]

\* the whitening word derived from the previous line word
Whiten(state) == [j \in Lanes |-> LfsrByte[XorByte(state[j], state[(j % 4) + 1])]]

\* the scrambled word; it is also the scrambler's next state
Scramble(enable, state, data) == IF enable THEN XorWord(data, Whiten(state)) ELSE data

\* the descrambled word; the received word is the descrambler's next state
Descramble(enable, state, d) == IF enable THEN XorWord(d, Whiten(state)) ELSE d

(***************************************************************************)
(* Packetizer / Depacketizer (specification 4.5 and 6)                     *)
(***************************************************************************)
WriteReq == 1
ReadReq == 2
ReadResp == 3

\* the frame start marker 0x5AA55AA5
Preamble == << 165, 90, 165, 90 >>

FrameLen == 4

\* word-clock cycles a read on a trained link may take: the frame time of each
\* transaction that can be queued ahead of it or behind it as its response, and the
\* 19 cycles of the FIFOs, the synchronizers and the remote bus
ReadLatency == 19 + FrameLen * MaxOps

\* the header word: opcode and byte enable in the top byte, a 24-bit address below
Header(type, sel, adr) == << adr % 256, (adr \div 256) % 256, adr \div 65536, 16 * type + sel >>

HdrType(h) == h[4] \div 16
HdrSel(h) == h[4] % 16
HdrAdr(h) == h[1] + 256 * h[2] + 65536 * h[3]

\* the integrity code over header and data
Crc(h, d) ==
  [j \in Lanes |-> XorByte(XorByte(h[j], LfsrByte[d[(j % 4) + 1]]), LfsrByte[XorByte(255, h[(j % 4) + 1])])]

\* a message is <<header, data>>; its frame on the word stream
Frame(msg) == << Preamble, msg[1], msg[2], Crc(msg[1], msg[2]) >>

\* a depacketizer that does not compare the integrity code
DepacketizerTakeUnchecked(held, w) ==
  IF held = << >> THEN
    [held |-> IF w = << 165, 90, 165, 90 >> THEN << w >> ELSE << >>, out |-> << >>]
  ELSE IF Len(held) < 3 THEN
    [held |-> Append(held, w), out |-> << >>]
  ELSE
    [held |-> << >>, out |-> << << held[2], held[3] >> >>]

\* the depacketizer takes one word: the words it holds next, and the message it emits
DepacketizerTake(held, w) ==
  IF held = << >> THEN
    [held |-> IF w = Preamble THEN << w >> ELSE << >>, out |-> << >>]
  ELSE IF Len(held) < FrameLen - 1 THEN
    [held |-> Append(held, w), out |-> << >>]
  ELSE
    [held |-> << >>,
     out  |-> IF w = Crc(held[2], held[3]) THEN << << held[2], held[3] >> >> ELSE << >>]

(***************************************************************************)
(* Etherbone (specification 4.6) and the two buses of the example          *)
(***************************************************************************)
Addrs == { 256, 512 }

\* the transactions the requester's bus master chooses from: 0xDEADBEEF to 0x100
\* under all byte enables, 0xDEAD0001 to 0x200 under the high two, and a read of 0x200
BusOps ==
  { [we |-> TRUE, adr |-> 256, dat |-> << 239, 190, 173, 222 >>, sel |-> 15],
    [we |-> TRUE, adr |-> 512, dat |-> << 1, 0, 173, 222 >>, sel |-> 12],
    [we |-> FALSE, adr |-> 512, dat |-> ZeroData, sel |-> 15] }

NoOp == [we |-> FALSE, adr |-> 0, dat |-> ZeroData, sel |-> 0]

\* wishbone.SRAM(8192, init=[i for i in range(8192//4)])
SramInit == [a \in Addrs |-> << a % 256, (a \div 256) % 256, 0, 0 >>]

\* a write that ignores the byte enables
SramWriteAll(old, dat, sel) == dat

\* the scrambled word never driven onto tx_d
serdes_tx_d_undriven(e) == << 0, 0, 0, 0 >>

\* a write under byte enables
SramWrite(old, dat, sel) == [j \in Lanes |-> IF Bit(sel, j - 1) = 1 THEN dat[j] ELSE old[j]]

MsgOfOp(op) ==
  << Header(IF op.we THEN WriteReq ELSE ReadReq, op.sel, op.adr), op.dat >>


(***************************************************************************)
(* SERWBCore's combinatorial connections (core.py, self.comb)              *)
(* A FIFO entry is [d |-> the 32-bit word, f |-> the number of the frame   *)
(* it belongs to, 0 for a filler, v |-> the reader's clock edges since it  *)
(* was written, counted up to SyncStages]; f is bookkeeping and is never   *)
(* read by the datapath.                                                   *)
(***************************************************************************)
ZeroK == << 0, 0, 0, 0 >>

\* AsyncFIFO source.valid: the oldest word has passed the synchronizer
FifoReadable(q) == q # << >> /\ Head(q).v = SyncStages

\* tx_cdc.source.valid
tx_cdc_valid(e) == FifoReadable(tx_cdc[e])

\* the word the scrambler works on: tx_cdc's head, or zero when its sink is not valid
scrambler_in(e) == IF tx_cdc_valid(e) THEN Head(tx_cdc[e]).d ELSE ZeroData

\* scrambler.source.valid: a scrambler that is enabled whitens every cycle, a
\* bypassed one passes its sink's valid on
scrambler_source_valid(e) == IF with_scrambling THEN TRUE ELSE tx_cdc_valid(e)

scrambler_source_d(e) == Scramble(with_scrambling, scr[e], scrambler_in(e))

\* scrambler.source.ready tied high
scrambler_source_ready_tied(e) == TRUE

\* If(phy.init.ready, ..., scrambler.source.ready.eq(1))
scrambler_source_ready(e) == ready[e]

\* If(phy.init.ready, If(scrambler.source.valid, phy.serdes.tx_k.eq(scrambler.source.k)))
serdes_tx_k(e) == ZeroK

\* If(phy.init.ready, If(scrambler.source.valid, phy.serdes.tx_d.eq(scrambler.source.d)))
serdes_tx_d(e) ==
  IF ready[e] /\ scrambler_source_valid(e) THEN scrambler_source_d(e) ELSE ZeroData

\* a scrambler that takes tx_cdc's head whether or not its source is ready
scrambler_sink_fire_always(e) == tx_cdc_valid(e)

\* the scrambler takes tx_cdc's head
scrambler_sink_fire(e) == tx_cdc_valid(e) /\ scrambler_source_ready(e)

\* what the endpoint's serdes sends: the core's word once trained, COMMA while training
LineWord(e) ==
  IF ready[e]
  THEN [k |-> serdes_tx_k(e), d |-> serdes_tx_d(e),
        f |-> IF scrambler_sink_fire(e) THEN Head(tx_cdc[e]).f ELSE 0]
  ELSE [k |-> EncoderIn(TRUE, ZeroK, ZeroData).k, d |-> EncoderIn(TRUE, ZeroK, ZeroData).d, f |-> 0]

\* descrambler.sink.valid.eq(phy.init.ready)
descrambler_sink_valid(e) == ready[e]

\* the descrambler hands a word on: only payload words (k = 0) are words of the stream
descrambler_source_valid(e, rx) == descrambler_sink_valid(e) /\ rx.k = ZeroK

\* rx_cdc.sink.ready
rx_cdc_writable(e) == Len(rx_cdc[e]) < FifoDepth

\* tx_cdc.sink.ready tied high
tx_cdc_writable_tied(e) == TRUE

\* tx_cdc.sink.ready
tx_cdc_writable(e) == Len(tx_cdc[e]) < FifoDepth

\* AsyncFIFO: words leave in the order they entered
FifoPush(q, w) == Append(q, [d |-> w.d, f |-> w.f, v |-> 0])

FifoPop(q) == Tail(q)

\* an edge of the reader's clock moves the written words through the synchronizer
FifoAge(q) == [i \in DOMAIN q |-> [q[i] EXCEPT !.v = IF @ < SyncStages THEN @ + 1 ELSE @]]

\* the words of a FIFO, oldest first
FifoWords(q) == [i \in DOMAIN q |-> [d |-> q[i].d, f |-> q[i].f]]

(***************************************************************************)
(* One edge of the PHY word clock: both directions of the line.  The word   *)
(* clock is never faster than sys (kusphy.py: Gearbox(40, "sys0p2x", 8,     *)
(* "sys") moves one 40-bit word per five sys cycles), so at least one sys   *)
(* edge lies between two of its edges.                                      *)
(***************************************************************************)
\* the receiving half of endpoint e, given the word rx (k, d) its serdes decoded
RxCdcNext(e, rx) ==
  IF descrambler_source_valid(e, rx) /\ rx_cdc_writable(e)
  THEN FifoPush(rx_cdc[e], [d |-> Descramble(with_scrambling, dsc[e], rx.d), f |-> rx.f])
  ELSE rx_cdc[e]

DscNext(e, rx) ==
  IF descrambler_source_valid(e, rx) /\ rx_cdc_writable(e) THEN rx.d ELSE dsc[e]

\* line(e) is the word endpoint e receives
PhyEdge(line) ==
  /\ tx_cdc' = [e \in Endpoints |->
                  FifoAge(IF scrambler_sink_fire(e) THEN FifoPop(tx_cdc[e]) ELSE tx_cdc[e])]
  /\ scr' = [e \in Endpoints |->
               IF with_scrambling /\ scrambler_source_ready(e) THEN scrambler_source_d(e) ELSE scr[e]]
  /\ rx_cdc' = [e \in Endpoints |-> RxCdcNext(e, line[e])]
  /\ dsc' = [e \in Endpoints |-> DscNext(e, line[e])]
  /\ UNCHANGED << with_scrambling, ready, wb, rd_wait, eb_src, pk, dpk, dpk_src, mem >>

\* an error-free line: each endpoint receives what its peer sent; the log keeps
\* the age of the read in flight, in word-clock cycles, counted up to ReadLatency + 1
\* and whether each descrambler has taken a word yet
PhyLogNext(line) ==
  [log EXCEPT !.rd_age = IF log.rd_age > 0 /\ log.rd_age <= ReadLatency
                         THEN log.rd_age + 1 ELSE log.rd_age,
              !.seen = [e \in Endpoints |->
                          IF descrambler_source_valid(e, line[e]) /\ rx_cdc_writable(e)
                          THEN TRUE ELSE log.seen[e]],
              !.lost = [e \in Endpoints |->
                          \/ log.lost[e]
                          \/ /\ descrambler_source_valid(e, line[e])
                             /\ ~rx_cdc_writable(e)
                             /\ line[e].f # 0]]

\* the line of the example design: the master's pads are wired to the slave's
Line == [e \in Endpoints |-> LineWord(Peer(e))]

PhyCycle ==
  LET line == Line
  IN /\ clk = 1
     /\ clk' = 0
     /\ PhyEdge(line)
     /\ log' = PhyLogNext(line)
     /\ UNCHANGED << serdesVars, crgVars >>

(***************************************************************************)
(* One edge of sys: Etherbone, packetizer and depacketizer of both cores   *)
(***************************************************************************)
\* packetizer.sink.ready
packetizer_ready(e) == pk[e] = << >>

\* the packetizer takes a message from etherbone.source
packetizer_take(e) == packetizer_ready(e) /\ eb_src[e] # << >>

\* packetizer.source.connect(tx_cdc.sink)
packetizer_fire(e) == pk[e] # << >> /\ tx_cdc_writable(e)

\* rx_cdc.source.connect(depacketizer.sink): the depacketizer waits while its
\* source holds a message
depacketizer_fire(e) == FifoReadable(rx_cdc[e]) /\ dpk_src[e] = << >>

\* depacketizer.source.connect(etherbone.sink): the message Etherbone is offered
etherbone_sink(e) == IF dpk_src[e] # << >> THEN dpk_src[e][1] ELSE << >>

\* Etherbone "master" takes a request when it can run it on its bus at once: a read
\* needs etherbone.source free for the response
rem_takes ==
  /\ etherbone_sink("rem") # << >>
  /\ (HdrType(etherbone_sink("rem")[1]) = ReadReq => eb_src["rem"] = << >>)

rem_is(type) == rem_takes /\ HdrType(etherbone_sink("rem")[1]) = type

rem_adr == HdrAdr(etherbone_sink("rem")[1])

\* the transaction Etherbone "master" runs on the remote bus
rem_bus_op ==
  [we  |-> rem_is(WriteReq), adr |-> rem_adr,
   dat |-> IF rem_is(WriteReq) THEN etherbone_sink("rem")[2]
           ELSE IF rem_adr \in Addrs THEN mem[rem_adr] ELSE ZeroData,
   sel |-> HdrSel(etherbone_sink("rem")[1])]

rem_runs == rem_is(WriteReq) \/ rem_is(ReadReq)

\* Etherbone "slave" always takes what the depacketizer offers
req_takes == etherbone_sink("req") # << >>

\* a response to the read in flight
req_resp == req_takes /\ HdrType(etherbone_sink("req")[1]) = ReadResp /\ rd_wait

\* Etherbone "slave" that forwards a read while another is in flight
req_forwards_unblocked == wb # NoOp /\ eb_src["req"] = << >>

\* Etherbone "slave" forwards the transaction its bus holds: a write at once, a
\* read only when none is in flight
req_forwards == wb # NoOp /\ ~rd_wait /\ eb_src["req"] = << >>

LinkReady == \A e \in Endpoints : ready[e]

EbSrcNext(e) ==
  IF packetizer_take(e) THEN << >>
  ELSE IF e = "req" /\ req_forwards THEN << MsgOfOp(wb) >>
  ELSE IF e = "rem" /\ rem_is(ReadReq)
       THEN << << Header(ReadResp, rem_bus_op.sel, rem_bus_op.adr), rem_bus_op.dat >> >>
  ELSE eb_src[e]

PkNext(e) ==
  IF packetizer_take(e)
  THEN [i \in 1..FrameLen |-> [d |-> Frame(eb_src[e][1])[i], f |-> Len(log.txf[e]) + 1]]
  ELSE IF packetizer_fire(e) THEN Tail(pk[e])
  ELSE pk[e]

DpkNext(e) ==
  IF depacketizer_fire(e) THEN DepacketizerTake(dpk[e], Head(rx_cdc[e]).d).held ELSE dpk[e]

DpkSrcNext(e) ==
  IF depacketizer_fire(e) THEN DepacketizerTake(dpk[e], Head(rx_cdc[e]).d).out
  ELSE IF (e = "req" /\ req_takes) \/ (e = "rem" /\ rem_takes) THEN << >>
  ELSE dpk_src[e]

LogNext ==
  [log EXCEPT
     !.txf = [e \in Endpoints |->
                IF packetizer_take(e) THEN Append(log.txf[e], eb_src[e][1]) ELSE log.txf[e]],
     !.rxf = [e \in Endpoints |->
                IF depacketizer_fire(e)
                THEN log.rxf[e] \o DepacketizerTake(dpk[e], Head(rx_cdc[e]).d).out
                ELSE log.rxf[e]],
     !.req_bus = IF req_forwards
                 THEN Append(log.req_bus, [op |-> wb, ok |-> LinkReady]) ELSE log.req_bus,
     !.rem_bus = IF rem_runs THEN Append(log.rem_bus, rem_bus_op) ELSE log.rem_bus,
     !.rd_done = IF req_resp
                 THEN Append(log.rd_done, [adr |-> wb.adr, dat |-> etherbone_sink("req")[2]])
                 ELSE log.rd_done,
     !.rd_age  = IF req_resp THEN 0
                 ELSE IF req_forwards /\ ~wb.we THEN (IF LinkReady THEN 1 ELSE 0)
                 ELSE log.rd_age]

SysEdge ==
  /\ eb_src' = [e \in Endpoints |-> EbSrcNext(e)]
  /\ pk' = [e \in Endpoints |-> PkNext(e)]
  /\ tx_cdc' = [e \in Endpoints |->
                  IF packetizer_fire(e) THEN FifoPush(tx_cdc[e], Head(pk[e])) ELSE tx_cdc[e]]
  /\ rx_cdc' = [e \in Endpoints |->
                  FifoAge(IF depacketizer_fire(e) THEN FifoPop(rx_cdc[e]) ELSE rx_cdc[e])]
  /\ dpk' = [e \in Endpoints |-> DpkNext(e)]
  /\ dpk_src' = [e \in Endpoints |-> DpkSrcNext(e)]
  /\ wb' = IF (req_forwards /\ wb.we) \/ req_resp THEN NoOp ELSE wb
  /\ rd_wait' = IF req_resp THEN FALSE
                ELSE IF req_forwards /\ ~wb.we THEN TRUE ELSE rd_wait
  /\ mem' = IF rem_is(WriteReq) /\ rem_adr \in Addrs
            THEN [mem EXCEPT ![rem_adr] = SramWrite(mem[rem_adr], rem_bus_op.dat, rem_bus_op.sel)]
            ELSE mem
  /\ UNCHANGED << with_scrambling, ready, scr, dsc, serdesVars, crgVars >>

SysCycle ==
  /\ clk' = 1
  /\ SysEdge
  /\ log' = LogNext

\* the requester's bus master starts a transaction
BusIssue ==
  /\ wb = NoOp
  /\ log.issued < MaxOps
  /\ \E op \in BusOps : wb' = op
  /\ log' = [log EXCEPT !.issued = log.issued + 1]
  /\ UNCHANGED << with_scrambling, ready, clk, rd_wait, eb_src, pk, tx_cdc, scr, dsc,
                  rx_cdc, dpk, dpk_src, mem, serdesVars, crgVars >>

\* an endpoint's link trainer reports READY
LinkUp ==
  \E e \in Endpoints :
    /\ ~ready[e]
    /\ ready' = [ready EXCEPT ![e] = TRUE]
    /\ UNCHANGED << with_scrambling, clk, wb, rd_wait, eb_src, pk, tx_cdc, scr, dsc,
                    rx_cdc, dpk, dpk_src, mem, log, serdesVars, crgVars >>

\* nothing observed yet
LogInit ==
  [issued |-> 0, req_bus |-> << >>, rem_bus |-> << >>, rd_done |-> << >>,
   rd_age |-> 0, seen |-> [e \in Endpoints |-> FALSE], hit |-> 0,
   down |-> [e \in Endpoints |-> FALSE], cut |-> [e \in Endpoints |-> 0],
   cutrx |-> [e \in Endpoints |-> 0], lost |-> [e \in Endpoints |-> FALSE],
   txf |-> [e \in Endpoints |-> << >>], rxf |-> [e \in Endpoints |-> << >>]]

\* both cores and both link trainers in reset
CoreReset ==
  /\ ready = [e \in Endpoints |-> FALSE]
  /\ clk = 0
  /\ wb = NoOp
  /\ rd_wait = FALSE
  /\ eb_src = [e \in Endpoints |-> << >>]
  /\ pk = [e \in Endpoints |-> << >>]
  /\ tx_cdc = [e \in Endpoints |-> << >>]
  /\ scr = [e \in Endpoints |-> ZeroData]
  /\ dsc = [e \in Endpoints |-> ZeroData]
  /\ rx_cdc = [e \in Endpoints |-> << >>]
  /\ dpk = [e \in Endpoints |-> << >>]
  /\ dpk_src = [e \in Endpoints |-> << >>]
  /\ mem = SramInit
  /\ log = LogInit

CoreInit == with_scrambling \in BOOLEAN /\ CoreReset

Init == CoreInit /\ SerdesInit({ 0 }, { WordB })

Next == SysCycle \/ PhyCycle \/ BusIssue \/ LinkUp

Spec == Init /\ [][Next]_vars

(***************************************************************************)
(* The clocks running freely against each other, in the two situations     *)
(* that fill a FIFO.  The remote trainer is either still training for good *)
(* (the remote core takes nothing in, the requester's bus master writes    *)
(* without rest, and tx_cdc fills whenever the word clock is the slower    *)
(* one) or READY from the start on a link without bus traffic (the idle    *)
(* words fill rx_cdc whenever sys is the slower one).                       *)
(***************************************************************************)
\* the bus master starts the next write as soon as the bus is free
CdcBusIssue ==
  /\ ~ready["rem"]
  /\ wb = NoOp
  /\ wb' = [we |-> TRUE, adr |-> 256, dat |-> << 239, 190, 173, 222 >>, sel |-> 15]
  /\ UNCHANGED << with_scrambling, ready, clk, rd_wait, eb_src, pk, tx_cdc, scr, dsc,
                  rx_cdc, dpk, dpk_src, mem, log, serdesVars, crgVars >>

\* an edge of sys, whenever
CdcSysCycle == SysEdge /\ UNCHANGED << clk, log >>

\* an edge of the word clock, whenever
CdcPhyCycle == PhyEdge(Line) /\ UNCHANGED << clk, log, serdesVars, crgVars >>

\* the requester's link trainer reports READY
CdcLinkUp ==
  /\ ~ready["req"]
  /\ ready' = [ready EXCEPT !["req"] = TRUE]
  /\ UNCHANGED << with_scrambling, clk, wb, rd_wait, eb_src, pk, tx_cdc, scr, dsc,
                  rx_cdc, dpk, dpk_src, mem, log, serdesVars, crgVars >>

CdcNext == CdcBusIssue \/ CdcSysCycle \/ CdcPhyCycle \/ CdcLinkUp

CdcCoreInit ==
  /\ with_scrambling = TRUE
  /\ ready \in { [e \in Endpoints |-> e = "rem" /\ r] : r \in BOOLEAN }
  /\ clk = 0
  /\ wb = NoOp
  /\ rd_wait = FALSE
  /\ eb_src = [e \in Endpoints |-> << >>]
  /\ pk = [e \in Endpoints |-> << >>]
  /\ tx_cdc = [e \in Endpoints |-> << >>]
  /\ scr = [e \in Endpoints |-> ZeroData]
  /\ dsc = [e \in Endpoints |-> ZeroData]
  /\ rx_cdc = [e \in Endpoints |-> << >>]
  /\ dpk = [e \in Endpoints |-> << >>]
  /\ dpk_src = [e \in Endpoints |-> << >>]
  /\ mem = SramInit
  /\ log = LogInit

CdcInit == CdcCoreInit /\ SerdesInit({ 0 }, { WordB })

SpecCdc == CdcInit /\ [][CdcNext]_vars

(***************************************************************************)
(* A trained link in bypass whose line damages one word of one frame on    *)
(* its way to the remote core.  The bus master writes 0xDEADBEEF or the    *)
(* value of the frame start marker itself.                                 *)
(***************************************************************************)
ErrOps ==
  { [we |-> TRUE, adr |-> 256, dat |-> << 239, 190, 173, 222 >>, sel |-> 15],
    [we |-> TRUE, adr |-> 512, dat |-> Preamble, sel |-> 15] }

\* the bit the line flips
ErrMask == << 1, 0, 0, 0 >>

ErrBusIssue ==
  /\ wb = NoOp
  /\ log.issued < MaxOps
  /\ \E op \in ErrOps : wb' = op
  /\ log' = [log EXCEPT !.issued = log.issued + 1]
  /\ UNCHANGED << with_scrambling, ready, clk, rd_wait, eb_src, pk, tx_cdc, scr, dsc,
                  rx_cdc, dpk, dpk_src, mem, serdesVars, crgVars >>

\* an edge of the word clock on which the remote core receives a word of a frame
\* with one bit flipped; it happens once
LineError ==
  LET line == [Line EXCEPT !["rem"].d = XorWord(@, ErrMask)]
  IN /\ log.hit = 0
     /\ Line["rem"].f # 0
     /\ clk = 1
     /\ clk' = 0
     /\ PhyEdge(line)
     /\ log' = [PhyLogNext(line) EXCEPT !.hit = Line["rem"].f]
     /\ UNCHANGED << serdesVars, crgVars >>

ErrNext == SysCycle \/ PhyCycle \/ ErrBusIssue \/ LineError

ErrCoreInit ==
  /\ with_scrambling = FALSE
  /\ ready = [e \in Endpoints |-> TRUE]
  /\ clk = 0
  /\ wb = NoOp
  /\ rd_wait = FALSE
  /\ eb_src = [e \in Endpoints |-> << >>]
  /\ pk = [e \in Endpoints |-> << >>]
  /\ tx_cdc = [e \in Endpoints |-> << >>]
  /\ scr = [e \in Endpoints |-> ZeroData]
  /\ dsc = [e \in Endpoints |-> ZeroData]
  /\ rx_cdc = [e \in Endpoints |-> << >>]
  /\ dpk = [e \in Endpoints |-> << >>]
  /\ dpk_src = [e \in Endpoints |-> << >>]
  /\ mem = SramInit
  /\ log = LogInit

ErrInit == ErrCoreInit /\ SerdesInit({ 0 }, { WordB })

SpecErr == ErrInit /\ [][ErrNext]_vars

(***************************************************************************)
(* Claims on the two cores over an error-free line                         *)
(***************************************************************************)
IsPrefix(a, b) == Len(a) <= Len(b) /\ a = SubSeq(b, 1, Len(a))

\* a is b with some elements left out
RECURSIVE IsSubseq(_, _)
IsSubseq(a, b) ==
  IF a = << >> THEN TRUE
  ELSE IF b = << >> THEN FALSE
  ELSE IF Head(a) = Head(b) THEN IsSubseq(Tail(a), Tail(b))
  ELSE IsSubseq(a, Tail(b))

\* while phy.init.ready is low the core drives nothing onto tx_k and tx_d and its
\* handshakes at the PHY boundary are low
BoundaryQuiet(e) ==
  /\ serdes_tx_k(e) = ZeroK
  /\ serdes_tx_d(e) = ZeroData
  /\ ~scrambler_source_ready(e)
  /\ ~scrambler_sink_fire(e)
  /\ ~descrambler_sink_valid(e)

\* in a step taken with phy.init.ready low nothing leaves tx_cdc, nothing enters
\* rx_cdc, and scrambler and descrambler keep their state
BoundaryHeld(e) ==
  /\ IsPrefix(FifoWords(tx_cdc[e]), FifoWords(tx_cdc'[e]))
  /\ rx_cdc[e] = << >> /\ rx_cdc'[e] = << >>
  /\ scr'[e] = scr[e]
  /\ dsc'[e] = dsc[e]

\* C2: in every reachable state where phy.init.ready is low no word crosses the
\* core/PHY boundary in either direction (tx_k and tx_d stay 0, scrambler.source.ready
\* and descrambler.sink.valid are low, tx_cdc is not read and rx_cdc is not written),
\* and no bus transaction is seen at the remote endpoint before both ends are READY.
C2_NoTrafficBeforeReady ==
  /\ [](\A e \in Endpoints : ~ready[e] => BoundaryQuiet(e))
  /\ [][\A e \in Endpoints : ~ready[e] => BoundaryHeld(e)]_vars
  /\ []((log.rem_bus # << >> \/ log.rd_done # << >>) => LinkReady)

\* a whole frame waits in the requester's tx_cdc, its link not yet READY, while the
\* remote end is READY and a word-clock edge is due
C2_Witness ==
  /\ ~ready["req"] /\ ready["rem"]
  /\ Len(tx_cdc["req"]) = FrameLen
  /\ clk = 1
  /\ log.rem_bus = << >>

\* the bus transactions of a log, as {address, data, byte enable}
RECURSIVE OpsOf(_)
OpsOf(l) == IF l = << >> THEN << >> ELSE << Head(l).op >> \o OpsOf(Tail(l))

IsWrite(op) == op.we

\* the writes the requester's bus interface accepted, and those among them it
\* accepted while both ends were READY
AcceptedWrites == SelectSeq(OpsOf(log.req_bus), IsWrite)

IsReadyWrite(r) == r.op.we /\ r.ok

ReadyWrites == OpsOf(SelectSeq(log.req_bus, IsReadyWrite))

\* the writes issued on the remote bus
RemoteWrites == SelectSeq(log.rem_bus, IsWrite)

IsFrameWord(w) == w.f # 0

\* nothing of a frame is left between the two Etherbones
Drained ==
  /\ wb = NoOp
  /\ \A e \in Endpoints :
       /\ eb_src[e] = << >> /\ pk[e] = << >> /\ tx_cdc[e] = << >>
       /\ SelectSeq(rx_cdc[e], IsFrameWord) = << >>
       /\ dpk[e] = << >> /\ dpk_src[e] = << >>

\* C1: every write {address, data, byte enable} accepted on the requester's bus
\* while the link is READY is issued exactly once, unchanged, on the remote bus: the
\* remote writes are accepted writes in their order, none twice, and once the link
\* has drained every write accepted on a READY link is among them.
C1_EndToEndWrite ==
  /\ IsSubseq(RemoteWrites, AcceptedWrites)
  /\ (Drained => IsSubseq(ReadyWrites, RemoteWrites))

\* {0x100, 0xDEADBEEF, 0xF} and {0x200, 0xDEAD0001, 0xC} went through in this order
C1_Witness ==
  /\ Drained
  /\ RemoteWrites = << [we |-> TRUE, adr |-> 256, dat |-> << 239, 190, 173, 222 >>, sel |-> 15],
                       [we |-> TRUE, adr |-> 512, dat |-> << 1, 0, 173, 222 >>, sel |-> 12] >>
  /\ ReadyWrites = RemoteWrites
  /\ mem[256] = << 239, 190, 173, 222 >>
  /\ mem[512] = << 0, 2, 173, 222 >>

IsRead(op) == ~op.we

\* the reads the requester's bus interface accepted
AcceptedReads == SelectSeq(OpsOf(log.req_bus), IsRead)

\* what the reads among the bus transactions l return on a memory whose content is m
\* before them: the value most recently written to their address
RECURSIVE ReadValues(_, _)
ReadValues(l, m) ==
  IF l = << >> THEN << >>
  ELSE IF Head(l).we
       THEN ReadValues(Tail(l),
              [m EXCEPT ![Head(l).adr] =
                 [j \in Lanes |-> IF Bit(Head(l).sel, j - 1) = 1 THEN Head(l).dat[j] ELSE @[j]]])
       ELSE << [adr |-> Head(l).adr, dat |-> m[Head(l).adr]] >> \o ReadValues(Tail(l), m)

AdrsOf(l) == [i \in DOMAIN l |-> l[i].adr]

\* C3: a read accepted on the requester's bus over a READY link is answered within
\* ReadLatency word-clock cycles with the value most recently written to its address
\* on the remote bus; reads are answered at most once each and in the order requested.
C3_EndToEndRead ==
  /\ IsPrefix(log.rd_done, ReadValues(log.rem_bus, SramInit))
  /\ IsPrefix(AdrsOf(log.rd_done), AdrsOf(AcceptedReads))
  /\ Len(SelectSeq(log.rem_bus, IsRead)) <= Len(AcceptedReads)
  /\ log.rd_age <= ReadLatency
  /\ (Drained /\ ~rd_wait => Len(log.rd_done) = Len(AcceptedReads))

\* 0x200 was written under the high byte enables and read back
C3_Witness ==
  /\ Len(log.req_bus) = 2 /\ log.req_bus[1].op.we /\ log.req_bus[2].ok
  /\ log.rd_done = << [adr |-> 512, dat |-> << 0, 2, 173, 222 >>] >>
  /\ wb = NoOp


\* a is a run of consecutive elements of b
IsInfix(a, b) ==
  \E k \in 0..Len(b) : k + Len(a) <= Len(b) /\ a = SubSeq(b, k + 1, k + Len(a))

ScramblerTakes(e) == IF scrambler_sink_fire(e) THEN << Head(tx_cdc[e]).d >> ELSE << >>

DescramblerEmits(e) ==
  IF Len(rx_cdc'[e]) > Len(rx_cdc[e]) THEN << rx_cdc'[e][Len(rx_cdc'[e])].d >> ELSE << >>

\* the descrambler of core e follows its peer's scrambler: at once in bypass, after
\* one word otherwise
Synchronized(e) == ~with_scrambling \/ log.seen[e]

PhyStep == clk = 1 /\ clk' = 0

\* C8: over a READY error-free link the word sequence leaving the receiving core's
\* descrambler equals the word sequence that entered the sending core's scrambler,
\* after one leading word with scrambling and from the first word in bypass: in
\* every word-clock cycle the descrambler emits exactly the word the peer's scrambler
\* took, and none when it took none.
C8_ScramblingRoundTrip ==
  [][\A e \in Endpoints :
       (PhyStep /\ LinkReady /\ Synchronized(e))
         => DescramblerEmits(e) = ScramblerTakes(Peer(e))]_vars

\* what holds instead: the descrambler emits a word in every cycle, the word the
\* peer's scrambler took or the zero word when it took none
C8_RoundTripWithFill ==
  [][\A e \in Endpoints :
       (PhyStep /\ LinkReady /\ Synchronized(e))
         => DescramblerEmits(e) = << scrambler_in(Peer(e)) >>]_vars

(***************************************************************************)
(* Claims on the clock-domain bridge                                       *)
(***************************************************************************)
IsWord32(d) == d \in [Lanes -> 0..255]

\* what a step may do to a FIFO: nothing, take a word at the tail when it is not
\* full, or give its oldest word when it is not empty
FifoStep(q, r) ==
  \/ FifoWords(r) = FifoWords(q)
  \/ Len(q) < FifoDepth /\ Len(r) = Len(q) + 1 /\ FifoWords(q) = SubSeq(FifoWords(r), 1, Len(q))
  \/ q # << >> /\ FifoWords(r) = Tail(FifoWords(q))

\* C10: tx_cdc and rx_cdc hold 32-bit words, between 0 and 16 of them in every
\* reachable state; a word is enqueued only in a step where the queue is not full
\* and dequeued only in a step where it is not empty, and the word dequeued is the
\* oldest, whatever the order of the edges of sys and of the word clock.
C10_ClockDomainBridge ==
  /\ [](\A e \in Endpoints :
          /\ Len(tx_cdc[e]) \in 0..FifoDepth
          /\ Len(rx_cdc[e]) \in 0..FifoDepth
          /\ \A i \in DOMAIN tx_cdc[e] : IsWord32(tx_cdc[e][i].d)
          /\ \A i \in DOMAIN rx_cdc[e] : IsWord32(rx_cdc[e][i].d))
  /\ [][\A e \in Endpoints :
          FifoStep(tx_cdc[e], tx_cdc'[e]) /\ FifoStep(rx_cdc[e], rx_cdc'[e])]_vars

\* tx_cdc is full again after its first words have gone onto the line, and the
\* packetizer holds the word it could not enqueue
C10_Witness ==
  /\ Len(tx_cdc["req"]) = FifoDepth
  /\ pk["req"] # << >>
  /\ Head(tx_cdc["req"]).d # Preamble
  /\ ready["req"]

\* rx_cdc is full of idle words, and so is the peer's
C10_WitnessRx == Len(rx_cdc["req"]) = FifoDepth /\ Len(rx_cdc["rem"]) = FifoDepth

(***************************************************************************)
(* Claims on frame integrity                                               *)
(***************************************************************************)
\* the sequence l without its element number n, or l itself when n is 0
RemoveAt(l, n) ==
  IF n = 0 THEN l ELSE SubSeq(l, 1, n - 1) \o SubSeq(l, n + 1, Len(l))

\* the writes that messages carry
WritesOf(l) ==
  [i \in DOMAIN l |->
     [we |-> TRUE, adr |-> HdrAdr(l[i][1]), dat |-> l[i][2], sel |-> HdrSel(l[i][1])]]

\* the frame the line damaged has been handed to the packetizer
Damaged == log.hit # 0 /\ log.hit <= Len(log.txf["req"])

\* no word of the damaged frame after its start marker has the marker's value
NoMarkerInside ==
  Damaged => \A i \in 2..FrameLen : Frame(log.txf["req"][log.hit])[i] # Preamble

\* a frame that arrives damaged is never delivered, in whole or in part: what the
\* depacketizer delivers, and what Etherbone then writes, comes from the other frames
NeverDelivered ==
  /\ IsSubseq(log.rxf["rem"], RemoveAt(log.txf["req"], log.hit))
  /\ IsPrefix(log.rem_bus, WritesOf(log.rxf["rem"]))

\* once the link has drained, exactly the damaged frame is missing
OneDropped == Drained => log.rxf["rem"] = RemoveAt(log.txf["req"], log.hit)

SerdesNext == Sys0p2xCycle \/ BitslipStep \/ Lock

SerdesOnly == with_scrambling = TRUE /\ CoreReset

SerdesStart == SerdesOnly /\ SerdesInit(Rotations, { WordB })

SpecSerdes == SerdesStart /\ [][SerdesNext]_vars

\* a trained link: the state Lock leaves, for any payload word
CodecRotations == { 0, 17 }

CodecInit ==
  /\ SerdesOnly
  /\ rot \in CodecRotations
  /\ probe \in AllProbes
  /\ disp = 0
  /\ tx_gearbox_i = ZeroWord
  /\ line_w = ZeroWord
  /\ rx_bitslip_r = << ZeroWord, ZeroWord >>
  /\ decoders_q = DecodersReset
  /\ CrgRunning
  /\ rx_bitslip_value = (LineWidth - rot) % LineWidth
  /\ locked = TRUE
  /\ tx_hist = [i \in 1..HistLen |-> IdleIn]
  /\ trainer = TrainerReset("req", "training")

SpecCodec == CodecInit /\ [][CodecCycle]_vars

(***************************************************************************)
(* Claims on the line codec and the bit alignment                          *)
(***************************************************************************)
\* what a receiver is expected to decode for an input of the sender
Expected(in) == EncoderIn(in.comma, in.k, in.d)

\* C6: with tx_idle and tx_comma low and the bitslip value at the rotation that
\* undoes the line's offset, the receiver's (rx_k, rx_d) equal the (tx_k, tx_d) the
\* sender presented, lane by lane, for every valid symbol on every lane.
C6_CodecRoundTrip ==
  (Aligned /\ ~Presented.idle /\ ~Presented.comma)
    => (rx_k = Presented.k /\ rx_d = Presented.d)

\* a control symbol has crossed the line on lane 4 and was decoded on lane 4
C6_Witness ==
  /\ Aligned /\ rot # 0
  /\ Presented = DataIn(probe)
  /\ probe.k = << 0, 0, 0, 1 >> /\ probe.d[4] = 247
  /\ rx_k = << 0, 0, 0, 1 >> /\ rx_d = << 17, 34, 51, 247 >>

\* C7: on a stream of COMMA words, for every line offset 0..39, rx_comma is asserted
\* at the bitslip value that undoes the offset and at no other value, so stepping the
\* value one position at a time finds it within the 40 positions; once the value is
\* kept, the decoded (rx_k, rx_d) are what the peer presented.
C7_BitAlignment ==
  /\ (AllComma(tx_hist) /\ rx_comma) => Aligned
  /\ (AllComma(tx_hist) /\ Aligned) => rx_comma
  /\ locked => Aligned
  /\ (locked /\ ~Presented.idle)
       => (rx_k = Expected(Presented).k /\ rx_d = Expected(Presented).d)

\* the value was stepped 39 times to undo an offset of one bit, and data follows
C7_Witness ==
  /\ locked /\ rot = 1 /\ rx_bitslip_value = 39
  /\ Presented = DataIn(WordB)
  /\ rx_k = WordB.k /\ rx_d = WordB.d

(***************************************************************************)
(* The link trainer (phy.init) of one endpoint on its receive path.  The   *)
(* trainer and the word clock take turns: one trainer step per line word.  *)
(* Its peer trains (COMMA words until this endpoint is READY), is silent   *)
(* (the line idles) or sends data words and never a COMMA.                 *)
(***************************************************************************)
Peers == { "training", "silent", "data" }

\* word periods of local COMMA transmission before the receiver is judged
Dwell == 2

\* word periods the trainer waits for rx_comma before it gives up
Timeout == 48

\* word periods rx_comma must stay asserted after the lock
Confirm == 2

init_ready == trainer.state = "READY"

init_error == trainer.state = "ERROR"

\* what the peer's serdes is given
PeerInputs ==
  CASE trainer.peer = "training" ->
         IF init_ready THEN { CommaIn(probe), DataIn(probe) } ELSE { CommaIn(probe) }
    [] trainer.peer = "silent" -> { IdleIn }
    [] trainer.peer = "data" -> { DataIn(probe) }

\* a word clock edge between two trainer steps
TrainLine ==
  /\ trainer.tick
  /\ Cycle(PeerInputs)
  /\ trainer' = [trainer EXCEPT !.tick = FALSE]

\* RESET: leave for SEND_TRAINING at once
TrainerStart ==
  /\ ~trainer.tick
  /\ trainer.state = "RESET"
  /\ trainer' = [trainer EXCEPT !.state = "SEND_TRAINING", !.timer = 0, !.tick = TRUE]
  /\ UNCHANGED << rot, probe, disp, tx_gearbox_i, line_w, rx_bitslip_r, decoders_q, rx_bitslip_value,
                  locked, tx_hist, coreVars, crgVars >>

\* SEND_TRAINING: transmit COMMA for the dwell time, then judge the receiver
TrainerDwell ==
  /\ ~trainer.tick
  /\ trainer.state = "SEND_TRAINING"
  /\ trainer' = IF trainer.timer < Dwell
                THEN [trainer EXCEPT !.timer = trainer.timer + 1, !.tick = TRUE]
                ELSE [trainer EXCEPT !.state = "WAIT_ALIGN", !.timer = 0, !.tick = TRUE]
  /\ UNCHANGED << rot, probe, disp, tx_gearbox_i, line_w, rx_bitslip_r, decoders_q, rx_bitslip_value,
                  locked, tx_hist, coreVars, crgVars >>

\* a step of the sampling window that wraps at the width of the signal only
TrainerSlipNoWrap ==
  /\ ~trainer.tick
  /\ trainer.state = "WAIT_ALIGN"
  /\ ~rx_comma
  /\ trainer.timer < Timeout
  /\ rx_bitslip_value' = (rx_bitslip_value + 1) % (2 ^ BitslipWidth)
  /\ trainer' = [trainer EXCEPT !.timer = trainer.timer + 1, !.tick = TRUE]
  /\ UNCHANGED << rot, probe, disp, tx_gearbox_i, line_w, rx_bitslip_r, decoders_q, locked, tx_hist,
                  coreVars, crgVars >>

\* WAIT_ALIGN without rx_comma: move the sampling window by one bit position
TrainerSlip ==
  /\ ~trainer.tick
  /\ trainer.state = "WAIT_ALIGN"
  /\ ~rx_comma
  /\ trainer.timer < Timeout
  /\ rx_bitslip_value' = (rx_bitslip_value + 1) % LineWidth
  /\ trainer' = [trainer EXCEPT !.timer = trainer.timer + 1, !.tick = TRUE]
  /\ UNCHANGED << rot, probe, disp, tx_gearbox_i, line_w, rx_bitslip_r, decoders_q, locked, tx_hist,
                  coreVars, crgVars >>

\* WAIT_ALIGN with rx_comma: keep the value
TrainerLock ==
  /\ ~trainer.tick
  /\ trainer.state = "WAIT_ALIGN"
  /\ rx_comma
  /\ locked' = TRUE
  /\ trainer' = [trainer EXCEPT !.state = "ALIGNED", !.timer = 0, !.tick = TRUE]
  /\ UNCHANGED << rot, probe, disp, tx_gearbox_i, line_w, rx_bitslip_r, decoders_q, rx_bitslip_value,
                  tx_hist, coreVars, crgVars >>

\* WAIT_ALIGN at the end of the window: ERROR
TrainerTimeout ==
  /\ ~trainer.tick
  /\ trainer.state = "WAIT_ALIGN"
  /\ ~rx_comma
  /\ trainer.timer = Timeout
  /\ trainer' = [trainer EXCEPT !.state = "ERROR", !.tick = TRUE]
  /\ UNCHANGED << rot, probe, disp, tx_gearbox_i, line_w, rx_bitslip_r, decoders_q, rx_bitslip_value,
                  locked, tx_hist, coreVars, crgVars >>

\* ALIGNED: READY once rx_comma has stayed for the confirmation window
TrainerConfirm ==
  /\ ~trainer.tick
  /\ trainer.state = "ALIGNED"
  /\ rx_comma
  /\ IF trainer.timer < Confirm
     THEN /\ trainer' = [trainer EXCEPT !.timer = trainer.timer + 1, !.tick = TRUE]
          /\ UNCHANGED ready
     ELSE /\ trainer' = [trainer EXCEPT !.state = "READY", !.tick = TRUE]
          /\ ready' = [ready EXCEPT ![trainer.role] = TRUE]
  /\ UNCHANGED << rot, probe, disp, tx_gearbox_i, line_w, rx_bitslip_r, decoders_q, rx_bitslip_value,
                  locked, tx_hist, with_scrambling, clk, wb, rd_wait, eb_src, pk, tx_cdc,
                  scr, dsc, rx_cdc, dpk, dpk_src, mem, log, crgVars >>

\* READY and ERROR are left by a reset only
TrainerHold ==
  /\ ~trainer.tick
  /\ trainer.state \in { "READY", "ERROR" }
  /\ trainer' = [trainer EXCEPT !.tick = TRUE]
  /\ UNCHANGED << rot, probe, disp, tx_gearbox_i, line_w, rx_bitslip_r, decoders_q, rx_bitslip_value,
                  locked, tx_hist, coreVars, crgVars >>

TrainNext ==
  \/ TrainLine
  \/ TrainerStart
  \/ TrainerDwell
  \/ TrainerSlip
  \/ TrainerLock
  \/ TrainerTimeout
  \/ TrainerConfirm
  \/ TrainerHold

TrainInit ==
  /\ SerdesOnly
  /\ rot \in Rotations
  /\ probe = WordB
  /\ disp = 0
  /\ tx_gearbox_i = ZeroWord
  /\ line_w = ZeroWord
  /\ rx_bitslip_r = << ZeroWord, ZeroWord >>
  /\ decoders_q = DecodersReset
  /\ CrgRunning
  /\ rx_bitslip_value = 0
  /\ locked = FALSE
  /\ tx_hist = [i \in 1..HistLen |-> IdleIn]
  /\ trainer \in { TrainerReset(role, peer) : role \in Endpoints, peer \in Peers }

\* both clocks keep running
SpecTrain == TrainInit /\ [][TrainNext]_vars /\ WF_vars(TrainNext)

(***************************************************************************)
(* Claims on link training                                                 *)
(***************************************************************************)
\* C5: from RESET, an endpoint whose peer transmits COMMA words reaches READY
\* (init.ready high) before the timeout expires; an endpoint that sees no COMMA
\* within the timeout reaches ERROR (init.error high) and never READY; for both
\* roles.  init.ready as the core sees it is high exactly in READY.
C5_LinkTraining ==
  /\ (trainer.peer = "training") => (<>init_ready /\ [](~init_error))
  /\ (trainer.peer # "training") => (<>init_error /\ [](~init_ready))
  /\ [](\A e \in Endpoints : ready[e] <=> (init_ready /\ e = trainer.role))
  /\ [](trainer.timer <= Timeout)

\* the slave's trainer stepped the window 39 times and reached READY
C5_Witness ==
  /\ init_ready /\ ready["rem"] /\ trainer.role = "rem"
  /\ rot = 1 /\ rx_bitslip_value = 39 /\ Aligned

\* the master's trainer tried every position on a line that carries data only
C5_WitnessError ==
  /\ init_error /\ trainer.role = "req" /\ trainer.peer = "data"
  /\ trainer.timer = Timeout /\ ~ready["req"]

(***************************************************************************)
(* Claims on the bus tunnel                                                *)
(***************************************************************************)
\* the reads forwarded and not answered yet
ReadsInFlight == Len(AcceptedReads) - Len(log.rd_done)

ReadyEncoderIn(e) == EncoderIn(FALSE, serdes_tx_k(e), serdes_tx_d(e))

\* C12: in every cycle in which the link is READY and scrambler.source.valid is low,
\* the word the endpoint puts on the line is a control symbol: tx_k marks a lane as
\* control and the encoder is given that control symbol, not a data word.
C12_IdleFillIsControl ==
  \A e \in Endpoints :
    (ready[e] /\ ~scrambler_source_valid(e))
      => /\ serdes_tx_k(e) # ZeroK
         /\ \E j \in Lanes : ReadyEncoderIn(e).k[j] = 1

(***************************************************************************)
(* A link that leaves READY: phy.init.ready of one endpoint falls, once,   *)
(* and rises again.  core.py connects phy.init.ready to the scrambler's    *)
(* source and the descrambler's sink only; nothing resets the FIFOs, the   *)
(* packetizer or the depacketizer.  The log keeps the number of the last   *)
(* frame the endpoint had handed to its packetizer (cut) and of the last   *)
(* frame its peer had (cutrx) when ready fell.                             *)
(***************************************************************************)
LinkDown ==
  \E e \in Endpoints :
    /\ ready[e]
    /\ \A x \in Endpoints : ~log.down[x]
    /\ ready' = [ready EXCEPT ![e] = FALSE]
    /\ log' = [log EXCEPT !.down[e] = TRUE, !.cut[e] = Len(log.txf[e]),
                          !.cutrx[e] = Len(log.txf[Peer(e)])]
    /\ UNCHANGED << with_scrambling, clk, wb, rd_wait, eb_src, pk, tx_cdc, scr, dsc,
                    rx_cdc, dpk, dpk_src, mem, serdesVars, crgVars >>

\* the requester's bus master writes 0xDEADBEEF to 0x100
WriteIssue ==
  /\ wb = NoOp
  /\ log.issued < MaxOps
  /\ wb' = [we |-> TRUE, adr |-> 256, dat |-> << 239, 190, 173, 222 >>, sel |-> 15]
  /\ log' = [log EXCEPT !.issued = log.issued + 1]
  /\ UNCHANGED << with_scrambling, ready, clk, rd_wait, eb_src, pk, tx_cdc, scr, dsc,
                  rx_cdc, dpk, dpk_src, mem, serdesVars, crgVars >>

ResetNext == SysCycle \/ PhyCycle \/ WriteIssue \/ LinkUp \/ LinkDown

SpecReset == Init /\ [][ResetNext]_vars

(***************************************************************************)
(* Claims on the link reset                                                *)
(***************************************************************************)
\* the endpoint has left READY and is READY again
ReadyAgain(e) == ready[e] /\ log.down[e]

\* C13: after the link has left READY and become READY again, no word that was
\* queued before is transmitted to the peer (taken from tx_cdc by the scrambler) and
\* none is handed to the depacketizer.
C13_ResetDiscardsInFlight ==
  \A e \in Endpoints :
    ReadyAgain(e)
      => /\ scrambler_sink_fire(e) => Head(tx_cdc[e]).f > log.cut[e]
         /\ depacketizer_fire(e)
              => (Head(rx_cdc[e]).f = 0 \/ Head(rx_cdc[e]).f > log.cutrx[e])

(***************************************************************************)
(* A trained link carrying payload that is as close to the COMMA word as   *)
(* data gets: the bytes of COMMA (0xBC, 0, 0, 0) sent as data, with any    *)
(* byte on one of the lanes.  The core's tx_k is 0 on every lane.          *)
(***************************************************************************)
NearComma(p, b) ==
  [k |-> ZeroWord, d |-> [j \in Lanes |-> IF j = p THEN b ELSE IF j = 1 THEN 188 ELSE 0]]

PayloadWords == { NearComma(p, b) : p \in Lanes, b \in 0..255 }

PayloadInit ==
  /\ SerdesOnly
  /\ rot \in CodecRotations
  /\ probe \in PayloadWords
  /\ disp = 0
  /\ tx_gearbox_i = ZeroWord
  /\ line_w = ZeroWord
  /\ rx_bitslip_r = << ZeroWord, ZeroWord >>
  /\ decoders_q = DecodersReset
  /\ CrgRunning
  /\ rx_bitslip_value = (LineWidth - rot) % LineWidth
  /\ locked = TRUE
  /\ tx_hist = [i \in 1..HistLen |-> IdleIn]
  /\ trainer = TrainerReset("req", "training")

SpecPayload == PayloadInit /\ [][CodecCycle]_vars

TxNext == SysCycle \/ PhyCycle \/ WriteIssue \/ LinkUp

SpecTx == Init /\ [][TxNext]_vars /\ WF_vars(SysCycle) /\ WF_vars(PhyCycle)

(***************************************************************************)
(* Claims on the transmit path                                             *)
(***************************************************************************)
\* tx_cdc of e loses its oldest word in this step
TxPopped(e) ==
  /\ tx_cdc[e] # << >>
  /\ Len(tx_cdc'[e]) < Len(tx_cdc[e])

\* the word leaving tx_cdc of e is on phy.serdes.tx_d in this cycle, scrambled or not
TxPresented(e) ==
  /\ ready[e]
  /\ serdes_tx_k(e) = ZeroK
  /\ serdes_tx_d(e) = Scramble(with_scrambling, scr[e], Head(tx_cdc[e]).d)
  /\ LineWord(e).f = Head(tx_cdc[e]).f

\* C15: a word leaves tx_cdc only in a cycle of the word clock in which the endpoint
\* is READY and the word is on tx_k/tx_d, so each word accepted is presented once and
\* in the order accepted; while READY scrambler.source.ready is 1 and a readable word
\* is taken at every edge of the word clock; before READY nothing leaves tx_cdc; and
\* if the endpoint becomes and stays READY, tx_cdc is empty again and again.
C15_TransmitProgress ==
  /\ [][\A e \in Endpoints :
          /\ TxPopped(e) => (PhyStep /\ TxPresented(e))
          /\ (PhyStep /\ ready[e] /\ tx_cdc_valid(e)) => TxPopped(e)
          /\ ~ready[e] => ~TxPopped(e)]_vars
  /\ [](\A e \in Endpoints : ready[e] => scrambler_source_ready(e))
  /\ \A e \in Endpoints : <>[]ready[e] => []<>(tx_cdc[e] = << >>)

\* two frames accepted before READY waited in tx_cdc and were delivered to the peer
C15_Witness ==
  /\ Len(log.req_bus) = 2
  /\ ~log.req_bus[1].ok /\ ~log.req_bus[2].ok
  /\ LinkReady
  /\ tx_cdc["req"] = << >> /\ pk["req"] = << >>
  /\ log.rxf["rem"] = log.txf["req"]
  /\ Len(log.rem_bus) = 2

(***************************************************************************)
(* The receive path of a trained link in bypass with the two clocks free   *)
(* of each other: the bus side may be as slow as it likes.  The log's lost *)
(* tells whether a word of a frame arrived while rx_cdc was full.          *)
(***************************************************************************)
\* the behaviour is followed up to the first word lost
NoneLost == \A e \in Endpoints : ~log.lost[e]

RxSysCycle == NoneLost /\ SysEdge /\ log' = LogNext /\ UNCHANGED clk

RxPhyCycle ==
  NoneLost /\ PhyEdge(Line) /\ log' = PhyLogNext(Line) /\ UNCHANGED << clk, serdesVars, crgVars >>

\* one write, so one frame from the requester
RxIssue == log.issued = 0 /\ WriteIssue

RxNext == RxIssue \/ RxSysCycle \/ RxPhyCycle

SpecRx == ErrInit /\ [][RxNext]_vars

(***************************************************************************)
(* Claims on the receive path                                              *)
(***************************************************************************)
\* C16: every word of a frame that the PHY presents while phy.init.ready is high is
\* taken into rx_cdc, also when the bus side is slow and rx_cdc is full.
C16_ReceiveLosesNoWord == NoneLost


(***************************************************************************)
(* The training pattern, for any tx_k and tx_d under tx_comma              *)
(***************************************************************************)
\* a trained link whose sender presents its word as payload and under tx_comma
PatternCycle == Cycle({ DataIn(probe), CommaIn(probe) }) /\ UNCHANGED trainer

SpecPattern == CodecInit /\ [][PatternCycle]_vars

\* the four-lane training pattern: K28.5 on lane 0, D0.0 on lanes 1 to 3
CommaK == << 1, 0, 0, 0 >>

CommaD == << 188, 0, 0, 0 >>

\* the word loaded into tx_gearbox.i at this edge is the encoded training pattern
LoadsPattern == tx_gearbox_i' = Encoder(CommaK, CommaD, disp).output

\* C17: whenever tx_comma is high and tx_idle is low the encoder is given 0xBC with
\* k=1 on lane 0 and 0x00 with k=0 on lanes 1 to 3, whatever tx_k and tx_d are; an
\* aligned receiver of that word asserts rx_comma, and rx_comma is asserted exactly
\* when the four decoded lanes are that pattern.
C17_TrainingPattern ==
  /\ [][(tx_hist'[1].comma /\ ~tx_hist'[1].idle) => LoadsPattern]_vars
  /\ []((Aligned /\ Presented.comma /\ ~Presented.idle) => rx_comma)
  /\ [](rx_comma <=> (rx_k = CommaK /\ rx_d = CommaD))

\* tx_comma went high over a word with a control symbol on lane 3 and data on the
\* others, and the aligned receiver at a line offset of 17 bits sees COMMA
C17_Witness ==
  /\ Aligned /\ rot # 0
  /\ Presented = CommaIn(probe)
  /\ probe.k = << 0, 0, 0, 1 >> /\ probe.d = << 17, 34, 51, 247 >>
  /\ rx_comma /\ rx_k = CommaK /\ rx_d = CommaD


(***************************************************************************)
(* Idle: tx_idle over any tx_comma, tx_k and tx_d, seen at every bitslip    *)
(* position                                                                *)
(***************************************************************************)
\* tx_idle high while tx_comma, tx_k and tx_d carry something
IdleOver(comma, w) == [idle |-> TRUE, comma |-> comma, k |-> w.k, d |-> w.d]

IdleInputs == { IdleOver(c, probe) : c \in BOOLEAN } \cup { CommaIn(probe) }

IdleCycle == Cycle(IdleInputs) /\ UNCHANGED trainer

\* the datapath out of reset, the bitslip held at any position
IdleInit ==
  /\ SerdesOnly
  /\ rot \in CodecRotations
  /\ probe = WordB
  /\ disp = 0
  /\ tx_gearbox_i = ZeroWord
  /\ line_w = ZeroWord
  /\ rx_bitslip_r = << ZeroWord, ZeroWord >>
  /\ decoders_q = DecodersReset
  /\ CrgRunning
  /\ rx_bitslip_value \in Rotations
  /\ locked = FALSE
  /\ tx_hist = [i \in 1..HistLen |-> IdleIn]
  /\ trainer = TrainerReset("req", "training")

SpecIdle == IdleInit /\ [][IdleCycle]_vars

AllIdle(h) == \A i \in 1..Len(h) : h[i].idle

\* every bit of rx_bitslip.o is 0
SlippedBitsZero ==
  /\ rx_bitslip_value < LineWidth
  /\ \A i \in 0..(LineWidth - 1) :
       CatBit(rx_bitslip_r[1], rx_bitslip_r[2], rx_bitslip_value + i) = 0

\* tx_idle wins over tx_comma, tx_k and tx_d, rx_idle is the all-zero word, and an
\* idling peer is seen as idle at whatever position the bitslip is
IdleHeld ==
  /\ tx_hist[1].idle => tx_gearbox_i = ZeroWord
  /\ rx_idle <=> SlippedBitsZero
  /\ AllIdle(tx_hist) => rx_idle

\* C18: whenever tx_idle is high the word loaded into tx_gearbox.i is all zeros,
\* whatever tx_comma, tx_k and tx_d are; rx_idle is asserted exactly when the
\* bit-slipped 40-bit word is all zeros, so an idling peer is seen as idle at every
\* bitslip position; and rx_idle and rx_comma are never asserted in the same cycle.
C18_IdlePriority == IdleHeld /\ ~(rx_idle /\ rx_comma_q)


(***************************************************************************)
(* The range of the alignment offset                                       *)
(***************************************************************************)
\* BitSlip(40) has a case for the value applied, and rx_idle and rx_comma are
\* computed from the window that starts at that bit
InRange ==
  /\ rx_bitslip_value \in 0..(LineWidth - 1)
  /\ rx_bitslip_o = Window(rx_bitslip_r[1], rx_bitslip_r[2], rx_bitslip_value)

ResetCounterWidth == 4

ResetCounterReset == 15

\* ~pll_locked | reset, the asynchronous input of both reset synchronizers
async_reset == ~pll_locked \/ reset

\* AsyncResetSynchronizer, two flip-flops preset by async_reset: on a clock edge
\* the first takes 0 and the second takes the first
ResetSyncEdge(q) == << 0, q[1] >>

ResetSyncPreset == << 1, 1 >>

\* a counter that goes on counting at 0
reset_counter_wrapping(c) == (c + (2 ^ ResetCounterWidth) - 1) % (2 ^ ResetCounterWidth)

\* If(reset_counter != 0, reset_counter.eq(reset_counter - 1))
reset_counter_next(c) == IF c # 0 THEN (c - 1) % (2 ^ ResetCounterWidth) ELSE c

\* .Else(ic_reset.eq(0))
ic_reset_next(c, r) == IF c # 0 THEN r ELSE 0

\* the MMCM locks or loses lock, the button is pressed or released; async_reset
\* presets both synchronizers at once
CrgInput ==
  /\ \E l \in BOOLEAN, b \in BOOLEAN :
       /\ << l, b >> # << pll_locked, reset >>
       /\ l = pll_locked \/ b = reset
       /\ pll_locked' = l
       /\ reset' = b
       /\ sys_rst' = IF ~l \/ b THEN ResetSyncPreset ELSE sys_rst
       /\ clk200_rst' = IF ~l \/ b THEN ResetSyncPreset ELSE clk200_rst
  /\ UNCHANGED << reset_counter, ic_reset, serdesVars, coreVars >>

\* an edge of cd_sys.clk
CrgSysEdge ==
  /\ sys_rst' = IF async_reset THEN ResetSyncPreset ELSE ResetSyncEdge(sys_rst)
  /\ sys_rst' # sys_rst
  /\ UNCHANGED << pll_locked, reset, clk200_rst, reset_counter, ic_reset, serdesVars, coreVars >>

\* an edge of cd_clk200.clk: the domain's registers take their reset values while
\* cd_clk200.rst is high
Clk200Edge ==
  /\ clk200_rst' = IF async_reset THEN ResetSyncPreset ELSE ResetSyncEdge(clk200_rst)
  /\ reset_counter' = IF clk200_rst[2] = 1 THEN ResetCounterReset
                      ELSE reset_counter_next(reset_counter)
  /\ ic_reset' = IF clk200_rst[2] = 1 THEN 1 ELSE ic_reset_next(reset_counter, ic_reset)
  /\ UNCHANGED << pll_locked, reset, sys_rst, serdesVars, coreVars >>

CrgNext == CrgInput \/ CrgSysEdge \/ Clk200Edge

\* power-up: the MMCM has not locked, every register holds its reset value
CrgInit ==
  /\ SerdesOnly
  /\ rot = 0
  /\ probe = WordB
  /\ disp = 0
  /\ tx_gearbox_i = ZeroWord
  /\ line_w = ZeroWord
  /\ rx_bitslip_r = << ZeroWord, ZeroWord >>
  /\ rx_bitslip_value = 0
  /\ decoders_q = DecodersReset
  /\ locked = FALSE
  /\ tx_hist = [i \in 1..HistLen |-> IdleIn]
  /\ trainer = TrainerReset("req", "training")
  /\ pll_locked = FALSE
  /\ reset \in BOOLEAN
  /\ sys_rst = ResetSyncPreset
  /\ clk200_rst = ResetSyncPreset
  /\ reset_counter = ResetCounterReset
  /\ ic_reset = 1

SpecCrg == CrgInit /\ [][CrgNext]_vars /\ WF_vars(Clk200Edge)

\* cd_clk200.rst is low: this edge is not a reset of the clk200 domain
Clk200Running == clk200_rst[2] = 0

\* C20: from reset_counter = 15 and ic_reset = 1, and absent a reset of the clk200
\* domain, reset_counter decreases by one per clk200 cycle down to 0 and never wraps
\* below 0; ic_reset stays high throughout the countdown, goes low on the first
\* clk200 cycle after reset_counter has reached 0, and is never asserted again.
C20_DelayCtrlReset ==
  /\ [](reset_counter \in 0..ResetCounterReset /\ ic_reset \in { 0, 1 })
  /\ [](reset_counter # 0 => ic_reset = 1)
  /\ [][(Clk200Edge /\ Clk200Running /\ reset_counter # 0)
         => (reset_counter' = reset_counter - 1 /\ ic_reset' = 1)]_vars
  /\ [][(Clk200Edge /\ Clk200Running /\ reset_counter = 0)
         => (reset_counter' = 0 /\ ic_reset' = 0)]_vars
  /\ [][(ic_reset = 0 /\ ic_reset' = 1) => ~Clk200Running]_vars
  /\ [][(reset_counter' # reset_counter \/ ic_reset' # ic_reset) => Clk200Edge]_vars
  /\ <>[](~async_reset) => <>[](reset_counter = 0 /\ ic_reset = 0)

\* the MMCM has locked, the countdown from 15 has run out and the delay controller
\* has just been released, the sys domain being out of reset as well
C20_Witness ==
  /\ ~async_reset
  /\ Clk200Running
  /\ sys_rst = << 0, 0 >>
  /\ reset_counter = 0
  /\ ic_reset = 0
====
